---- MODULE Spec2Model ----
(***************************************************************************)
(* Governance validity predicate (shared/src/ledger/governance/mod.rs).    *)
(*                                                                         *)
(* GovernanceVp::validate_tx is modelled as a state machine over one call: *)
(* the inputs (changed keys, verifiers, the pre and post storage views,    *)
(* the block epoch) are fixed by Init, CheckKeySet is the shape check of   *)
(* lines 72-74, one action per match arm of lines 80-315 visits the keys   *)
(* in BTreeSet order with the short circuit of Iterator::all, and ReturnOk *)
(* is line 317.  An integer overflow panics or wraps, as the build's       *)
(* overflow checks decide: both outcomes are successors of the step.       *)
(***************************************************************************)
EXTENDS Integers, Sequences, FiniteSets, TLC

\* u64::MAX and usize::MAX, scaled down: arithmetic is modulo MaxU + 1.
MaxU == 3

U64 == 0 .. MaxU

(***************************************************************************)
(* Storage keys: a Key is a sequence of segments (types::storage::Key).    *)
(***************************************************************************)
AddressSeg(a) == [type |-> "AddressSeg", raw |-> a]

StringSeg(s) == [type |-> "StringSeg", raw |-> s]

\* Internal governance address
ADDRESS == "governance"

\* address of the native token (xan)
m1t == "xan"

\* external (user) addresses
UserAddresses == {"alice", "bob"}

\* u64::to_string, used when an id becomes a key segment
IdSeg(id) == StringSeg(ToString(id))

get_counter_key == <<AddressSeg(ADDRESS), StringSeg("counter")>>

ProposalKey(id_seg, field) ==
    <<AddressSeg(ADDRESS), StringSeg("proposal"), id_seg, StringSeg(field)>>

get_content_key(id) == ProposalKey(IdSeg(id), "content")

get_author_key(id) == ProposalKey(IdSeg(id), "author")

get_funds_key(id) == ProposalKey(IdSeg(id), "funds")

get_voting_start_epoch_key(id) == ProposalKey(IdSeg(id), "start_epoch")

get_voting_end_epoch_key(id) == ProposalKey(IdSeg(id), "end_epoch")

get_grace_epoch_key(id) == ProposalKey(IdSeg(id), "grace_epoch")

get_proposal_code_key(id) == ProposalKey(IdSeg(id), "proposal_code")

get_vote_key(id) == ProposalKey(IdSeg(id), "vote")

ParameterNames ==
    {"max_content_length", "max_proposal_code_size",
     "min_proposal_period", "min_proposal_fund"}

ParameterKey(name) == <<AddressSeg(ADDRESS), StringSeg(name)>>

get_max_proposal_content_key == ParameterKey("max_content_length")

get_max_proposal_code_size_key == ParameterKey("max_proposal_code_size")

get_min_proposal_period_key == ParameterKey("min_proposal_period")

get_min_proposal_fund_key == ParameterKey("min_proposal_fund")

\* token::balance_key(token, owner)
balance_key(token, owner) ==
    <<AddressSeg(token), StringSeg("balance"), AddressSeg(owner)>>

\* Option<T>
None == [some |-> FALSE, v |-> 0]

Some(x) == [some |-> TRUE, v |-> x]

\* str::parse::<u64>: the decimal strings of the representable values parse,
\* every other string is an error.
ParseU64(s) ==
    IF \E n \in U64 : ToString(n) = s
    THEN Some(CHOOSE n \in U64 : ToString(n) = s)
    ELSE None

\* fn get_id(key) -> Option<u64>
get_id(key) ==
    IF Len(key) >= 3
    THEN IF key[3].type = "AddressSeg" THEN None ELSE ParseU64(key[3].raw)
    ELSE None

IsProposalField(key, field) ==
    /\ Len(key) = 4
    /\ key[1] = AddressSeg(ADDRESS)
    /\ key[2] = StringSeg("proposal")
    /\ key[3].type = "StringSeg"
    /\ key[4] = StringSeg(field)

is_vote_key(key) == IsProposalField(key, "vote")

is_content_key(key) == IsProposalField(key, "content")

is_proposal_code_key(key) == IsProposalField(key, "proposal_code")

is_grace_epoch_key(key) == IsProposalField(key, "grace_epoch")

is_start_epoch_key(key) == IsProposalField(key, "start_epoch")

is_end_epoch_key(key) == IsProposalField(key, "end_epoch")

\* gov_storage::is_balance_key: the funds field of a proposal
gov_is_balance_key(key) == IsProposalField(key, "funds")

is_author_key(key) == IsProposalField(key, "author")

is_counter_key(key) == key = get_counter_key

is_parameter_key(key) == \E name \in ParameterNames : key = ParameterKey(name)

\* token::is_balance_key(token, key).is_some()
token_is_balance_key(token, key) ==
    /\ Len(key) = 3
    /\ key[1] = AddressSeg(token)
    /\ key[2] = StringSeg("balance")
    /\ key[3].type = "AddressSeg"

\* impl From<&Key> for KeyType
KeyTypeOf(key) ==
    IF is_vote_key(key) THEN "VOTE"
    ELSE IF is_content_key(key) THEN "CONTENT"
    ELSE IF is_proposal_code_key(key) THEN "PROPOSAL_CODE"
    ELSE IF is_grace_epoch_key(key) THEN "GRACE_EPOCH"
    ELSE IF is_start_epoch_key(key) THEN "START_EPOCH"
    ELSE IF is_end_epoch_key(key) THEN "END_EPOCH"
    ELSE IF gov_is_balance_key(key) THEN "FUNDS"
    ELSE IF is_author_key(key) THEN "AUTHOR"
    ELSE IF is_counter_key(key) THEN "COUNTER"
    ELSE IF is_parameter_key(key) THEN "PARAMETER"
    ELSE IF token_is_balance_key(m1t, key) THEN "BALANCE"
    ELSE "UNKNOWN"

(***************************************************************************)
(* Order of keys in a BTreeSet<Key>: the derived lexicographic order of the *)
(* segment vectors, AddressSeg before StringSeg, strings in byte order.     *)
(***************************************************************************)
AddressOrder == <<"alice", "bob", "xan", "governance">>

\* the non-numeric strings that occur in keys, in byte order
NameOrder ==
    <<"author", "balance", "content", "counter", "end_epoch", "funds",
      "grace_epoch", "max_content_length", "max_proposal_code_size",
      "min_proposal_fund", "min_proposal_period", "proposal",
      "proposal_code", "start_epoch", "unknown", "vote", "x">>

IndexIn(seq, x) == CHOOSE i \in 1 .. Len(seq) : seq[i] = x

\* one-digit decimal strings sort before every name, in numeric order
SegRank(seg) ==
    IF seg.type = "AddressSeg"
    THEN IndexIn(AddressOrder, seg.raw)
    ELSE IF ParseU64(seg.raw).some
         THEN Len(AddressOrder) + 1 + ParseU64(seg.raw).v
         ELSE Len(AddressOrder) + MaxU + 2 + IndexIn(NameOrder, seg.raw)

RECURSIVE SegsLess(_, _, _)
SegsLess(a, b, i) ==
    IF i > Len(a) THEN i <= Len(b)
    ELSE IF i > Len(b) THEN FALSE
    ELSE IF SegRank(a[i]) # SegRank(b[i]) THEN SegRank(a[i]) < SegRank(b[i])
    ELSE SegsLess(a, b, i + 1)

KeyLess(a, b) == SegsLess(a, b, 1)

\* BTreeSet::iter: the keys in ascending order
RECURSIVE SortedKeys(_)
SortedKeys(S) ==
    IF S = {} THEN <<>>
    ELSE LET m == CHOOSE k \in S : \A o \in S \ {k} : KeyLess(k, o)
         IN <<m>> \o SortedKeys(S \ {m})

(***************************************************************************)
(* The call's state: its inputs, the position of keys_changed.iter().all,  *)
(* and its outcome.                                                        *)
(***************************************************************************)
VARIABLES
    keys_changed,   \* &BTreeSet<Key>
    verifiers,      \* &BTreeSet<Address>
    pre,            \* the pre view of storage: key -> cell
    post,           \* the post view of storage: key -> cell
    block_epoch,    \* what ctx.get_block_epoch().ok() gives
    pc,             \* "check", "all" or "done"
    todo,           \* the keys all() has not visited yet, in order
    result          \* "none", "Ok(true)", "Ok(false)" or "panic"

vars == <<keys_changed, verifiers, pre, post, block_epoch, pc, todo, result>>

inputs == <<keys_changed, verifiers, pre, post, block_epoch>>

\* the size of the integer types: values wrap modulo Modulus
Modulus == MaxU + 1

(***************************************************************************)
(* A storage cell is what the host answers for one key of one view:        *)
(*   "ok"      bytes that decode as the type the rule asks for, value v    *)
(*             (raw content bytes: v is their length)                      *)
(*   "garbage" bytes that do not decode (typed reads only)                 *)
(*   "absent"  no value                                                    *)
(*   "error"   the storage backend fails (native_vp::Error)                *)
(***************************************************************************)
Ok(x) == [st |-> "ok", v |-> x]

Absent == [st |-> "absent"]

Garbage == [st |-> "garbage"]

StorageError == [st |-> "error"]

\* fn read<T>(context, key, read_type), followed by the .ok() of every call
read(view, key) ==
    IF view[key].st = "ok" THEN Some(view[key].v) ELSE None

\* self.ctx.has_key_pre(key).ok()
has_key_pre(key) ==
    IF pre[key].st = "error" THEN None ELSE Some(pre[key].st # "absent")

Verdict(b) == IF b THEN "true" ELSE "false"

\* the result of an integer operation: a value, or a panic
Value(x) == [panic |-> FALSE, v |-> x]

Panic == [panic |-> TRUE, v |-> 0]

\* a + b on u64: a panic with overflow checks, the wrapped value without
\* (both are outcomes a build can produce)
CheckedAdd(a, b) ==
    IF a + b > MaxU THEN {Panic, Value((a + b) % Modulus)} ELSE {Value(a + b)}

\* a - b on u64 (Amount::sub): the same two outcomes on underflow
CheckedSub(a, b) ==
    IF a < b THEN {Panic, Value((a - b + Modulus) % Modulus)}
    ELSE {Value(a - b)}

(***************************************************************************)
(* The match arms of validate_tx.  Each gives the set of outcomes the arm  *)
(* can have for the key: "true", "false" (the closure's value) or "panic". *)
(***************************************************************************)
\* (KeyType::CONTENT, Some(proposal_id))
ContentArm(proposal_id) ==
    LET content_key == get_content_key(proposal_id)
        max_content_length == read(pre, get_max_proposal_content_key)
        has_pre_content == has_key_pre(content_key)
        post_content == post[content_key]
    IN  IF post_content.st = "error" THEN {"panic"}    \* .unwrap() of an Err
        ELSE IF /\ has_pre_content.some
                /\ post_content.st = "ok"
                /\ max_content_length.some
             THEN {Verdict(/\ ~has_pre_content.v
                           /\ post_content.v < max_content_length.v)}
             ELSE {"false"}

\* (KeyType::PROPOSAL_CODE, Some(proposal_id))
ProposalCodeArm(proposal_id) ==
    LET proposal_code_key == get_proposal_code_key(proposal_id)
        max_proposal_code_size == read(pre, get_max_proposal_code_size_key)
        has_pre_proposal_code == has_key_pre(proposal_code_key)
        post_proposal_code == read(post, proposal_code_key)
    IN  IF /\ has_pre_proposal_code.some
           /\ post_proposal_code.some
           /\ max_proposal_code_size.some
        THEN {Verdict(/\ ~has_pre_proposal_code.v
                      /\ post_proposal_code.v < max_proposal_code_size.v)}
        ELSE {"false"}

\* (KeyType::GRACE_EPOCH, Some(proposal_id))
GraceEpochArm(proposal_id) ==
    LET end_epoch == read(post, get_voting_end_epoch_key(proposal_id))
        grace_epoch == read(post, get_grace_epoch_key(proposal_id))
        has_pre_grace_epoch == has_key_pre(get_grace_epoch_key(proposal_id))
    IN  IF has_pre_grace_epoch.some /\ grace_epoch.some /\ end_epoch.some
        THEN {Verdict(~has_pre_grace_epoch.v /\ end_epoch.v < grace_epoch.v)}
        ELSE {"false"}

\* EpochArm without the distance of the voting start from the current epoch
EpochArmNoDistance(proposal_id) ==
    LET start_epoch == read(post, get_voting_start_epoch_key(proposal_id))
        end_epoch == read(post, get_voting_end_epoch_key(proposal_id))
        min_period == read(pre, get_min_proposal_period_key)
        has_pre_start_epoch ==
            has_key_pre(get_voting_start_epoch_key(proposal_id))
        has_pre_end_epoch ==
            has_key_pre(get_voting_end_epoch_key(proposal_id))
    IN  IF /\ has_pre_start_epoch.some /\ has_pre_end_epoch.some
           /\ min_period.some /\ start_epoch.some /\ end_epoch.some
           /\ block_epoch.some
        THEN IF \/ end_epoch.v <= start_epoch.v
                \/ start_epoch.v <= block_epoch.v
                \/ has_pre_start_epoch.v \/ has_pre_end_epoch.v
             THEN {"false"}
             ELSE IF min_period.v = 0 THEN {"panic"}
             ELSE {Verdict((end_epoch.v - start_epoch.v) % min_period.v = 0)}
        ELSE {"false"}

\* (KeyType::START_EPOCH | KeyType::END_EPOCH, Some(proposal_id))
EpochArm(proposal_id) ==
    LET start_epoch_key == get_voting_start_epoch_key(proposal_id)
        end_epoch_key == get_voting_end_epoch_key(proposal_id)
        start_epoch == read(post, start_epoch_key)
        end_epoch == read(post, end_epoch_key)
        current_epoch == block_epoch
        min_period == read(pre, get_min_proposal_period_key)
        has_pre_start_epoch == has_key_pre(start_epoch_key)
        has_pre_end_epoch == has_key_pre(end_epoch_key)
    IN  IF /\ has_pre_start_epoch.some /\ has_pre_end_epoch.some
           /\ min_period.some /\ start_epoch.some /\ end_epoch.some
           /\ current_epoch.some
        THEN IF \/ end_epoch.v <= start_epoch.v
                \/ start_epoch.v <= current_epoch.v
             THEN {"false"}
             ELSE IF has_pre_start_epoch.v \/ has_pre_end_epoch.v
                     \/ ~(start_epoch.v < end_epoch.v)
             THEN {"false"}
             ELSE IF min_period.v = 0 THEN {"panic"}   \* % 0
             ELSE {Verdict(
                     /\ (end_epoch.v - start_epoch.v) % min_period.v = 0
                     /\ start_epoch.v - current_epoch.v >= min_period.v)}
        ELSE {"false"}

\* (KeyType::FUNDS, Some(proposal_id))
FundsArm(proposal_id) ==
    LET funds_key == get_funds_key(proposal_id)
        balance == balance_key(m1t, ADDRESS)
        min_funds_parameter == read(pre, get_min_proposal_fund_key)
        pre_balance == read(pre, balance)
        post_balance == read(post, balance)
        post_funds == read(post, funds_key)
    IN  IF /\ min_funds_parameter.some /\ pre_balance.some
           /\ post_balance.some /\ post_funds.some
        THEN IF ~(post_funds.v >= min_funds_parameter.v) THEN {"false"}
             ELSE {IF d.panic THEN "panic" ELSE Verdict(d.v = post_funds.v) :
                      d \in CheckedSub(post_balance.v, pre_balance.v)}
        ELSE {"false"}

\* AuthorArm without the membership of the author in the verifiers
AuthorArmAnyAuthor(proposal_id) ==
    LET author == read(post, get_author_key(proposal_id))
        has_pre_author == has_key_pre(get_author_key(proposal_id))
    IN  IF has_pre_author.some /\ author.some
        THEN {Verdict(~has_pre_author.v)}
        ELSE {"false"}

\* (KeyType::AUTHOR, Some(proposal_id))
AuthorArm(proposal_id) ==
    LET author_key == get_author_key(proposal_id)
        author == read(post, author_key)
        has_pre_author == has_key_pre(author_key)
    IN  IF has_pre_author.some /\ author.some
        THEN {Verdict(~has_pre_author.v /\ author.v \in verifiers)}
        ELSE {"false"}

\* (KeyType::COUNTER, _)
CounterArm ==
    LET pre_counter == read(pre, get_counter_key)
        post_counter == read(post, get_counter_key)
    IN  IF pre_counter.some /\ post_counter.some
        THEN {IF s.panic THEN "panic" ELSE Verdict(s.v = post_counter.v) :
                 s \in CheckedAdd(pre_counter.v, 1)}
        ELSE {"false"}

\* (KeyType::BALANCE, _)
BalanceArm ==
    LET balance == balance_key(m1t, ADDRESS)
        min_funds_parameter == read(pre, get_min_proposal_fund_key)
        pre_balance == read(pre, balance)
        post_balance == read(post, balance)
    IN  IF min_funds_parameter.some /\ pre_balance.some /\ post_balance.some
        THEN {Verdict(/\ post_balance.v > pre_balance.v
                      /\ post_balance.v - pre_balance.v
                            >= min_funds_parameter.v)}
        ELSE IF min_funds_parameter.some /\ post_balance.some
        THEN {Verdict(post_balance.v >= min_funds_parameter.v)}
        ELSE {"false"}

\* is_valid_proposal_init_key_set with the counter key left out of the
\* mandatory keys
KeySetWithoutCounter(keys) ==
    LET pre_counter == read(pre, get_counter_key)
    IN  IF ~pre_counter.some THEN FALSE
        ELSE {get_content_key(pre_counter.v),
              get_author_key(pre_counter.v),
              get_funds_key(pre_counter.v),
              get_voting_start_epoch_key(pre_counter.v),
              get_voting_end_epoch_key(pre_counter.v)} \subseteq keys

\* fn is_valid_proposal_init_key_set(context, keys)
is_valid_proposal_init_key_set(keys) ==
    LET pre_counter == read(pre, get_counter_key)
    IN  IF ~pre_counter.some THEN FALSE
        ELSE LET counter == pre_counter.v
                 mandatory_keys ==
                     {get_counter_key,
                      get_content_key(counter),
                      get_author_key(counter),
                      get_funds_key(counter),
                      get_voting_start_epoch_key(counter),
                      get_voting_end_epoch_key(counter)}
             IN  mandatory_keys \subseteq keys

\* fn is_valid_key_set(context, keys)
is_valid_key_set(keys) ==
    IF is_valid_proposal_init_key_set(keys) THEN TRUE ELSE FALSE

(***************************************************************************)
(* The inputs of a call.  The reference call creates proposal 0 and is     *)
(* accepted; the calls checked differ from it in the key set, or in every  *)
(* value one rule reads, or in one read that fails.                        *)
(***************************************************************************)
Ids == U64

ProposalFields ==
    {"content", "author", "funds", "start_epoch", "end_epoch",
     "grace_epoch", "proposal_code"}

gov_balance == balance_key(m1t, ADDRESS)

\* the keys validate_tx can read
StorageKeys ==
    {get_counter_key, gov_balance}
        \cup {ParameterKey(name) : name \in ParameterNames}
        \cup {ProposalKey(IdSeg(id), f) : id \in Ids, f \in ProposalFields}

Field(k) == k[4].raw

RefPre ==
    [k \in StorageKeys |->
        IF k = get_counter_key THEN Ok(0)
        ELSE IF k = gov_balance THEN Ok(1)
        ELSE IF k = get_max_proposal_content_key THEN Ok(2)
        ELSE IF k = get_max_proposal_code_size_key THEN Ok(2)
        ELSE IF k = get_min_proposal_period_key THEN Ok(1)
        ELSE IF k = get_min_proposal_fund_key THEN Ok(1)
        ELSE Absent]

RefPost ==
    [k \in StorageKeys |->
        IF k = get_counter_key THEN Ok(1)
        ELSE IF k = gov_balance THEN Ok(3)
        ELSE IF Len(k) = 2 THEN RefPre[k]
        ELSE IF Field(k) = "content" THEN Ok(1)
        ELSE IF Field(k) = "proposal_code" THEN Ok(1)
        ELSE IF Field(k) = "author" THEN Ok("alice")
        ELSE IF Field(k) = "funds" THEN Ok(2)
        ELSE IF Field(k) = "start_epoch" THEN Ok(1)
        ELSE IF Field(k) = "end_epoch" THEN Ok(2)
        ELSE Ok(3)]

Mandatory(id) ==
    {get_counter_key, get_content_key(id), get_author_key(id),
     get_funds_key(id), get_voting_start_epoch_key(id),
     get_voting_end_epoch_key(id)}

\* keys a transaction can change besides the mandatory ones
ExtraKeys ==
    {ProposalKey(IdSeg(id), f) :
        id \in Ids, f \in ProposalFields \cup {"vote"}}
        \cup {ProposalKey(StringSeg("x"), f) : f \in {"content", "vote"}}
        \cup {ParameterKey(name) : name \in ParameterNames}
        \cup {gov_balance, balance_key(m1t, "alice"),
              <<AddressSeg(ADDRESS), StringSeg("unknown")>>}

\* the mandatory keys of proposal id, at most one of them left out, and at
\* most one other key
KeySets(id) ==
    {(Mandatory(id) \ D) \cup X :
        D \in {{}} \cup {{k} : k \in Mandatory(id)},
        X \in {{}} \cup {{k} : k \in ExtraKeys}}

OtherId(id) == (id + 1) % Modulus

\* the key sets the value cases are tried with
SmallKeySets(id) ==
    {Mandatory(id) \cup X :
        X \in {{},
               {get_vote_key(id)},
               {get_content_key(OtherId(id))},
               {get_grace_epoch_key(id), get_proposal_code_key(id),
                gov_balance}}}

\* the state at the entry of validate_tx; the calls checked do not write
\* the parameters, whose post image is their pre image
Call(ks, vs, pre_view, post_view, epoch) ==
    /\ keys_changed = ks
    /\ verifiers = vs
    /\ pre = pre_view
    /\ post = [k \in StorageKeys |->
                 IF is_parameter_key(k) THEN pre_view[k] ELSE post_view[k]]
    /\ block_epoch = epoch
    /\ pc = "check"
    /\ todo = <<>>
    /\ result = "none"

RefVerifiers == {"alice"}

RefEpoch == Some(0)

HasPre == {Absent, Ok(0)}

\* any key set, the reference values
KeyCases ==
    \E id \in Ids : \E ks \in KeySets(id) :
        Call(ks, RefVerifiers, RefPre, RefPost, RefEpoch)

\* any pre and post counter
CounterCases ==
    \E a \in U64, b \in U64, id \in Ids : \E ks \in SmallKeySets(id) :
        Call(ks, RefVerifiers,
             [RefPre EXCEPT ![get_counter_key] = Ok(a)],
             [RefPost EXCEPT ![get_counter_key] = Ok(b)], RefEpoch)

ContentCases ==
    \E h \in HasPre, m \in U64, n \in U64, ks \in SmallKeySets(0) :
        Call(ks, RefVerifiers,
             [RefPre EXCEPT ![get_content_key(0)] = h,
                            ![get_max_proposal_content_key] = Ok(m)],
             [RefPost EXCEPT ![get_content_key(0)] = Ok(n)], RefEpoch)

ProposalCodeCases ==
    \E h \in HasPre, m \in U64, n \in U64, ks \in SmallKeySets(0) :
        Call(ks, RefVerifiers,
             [RefPre EXCEPT ![get_proposal_code_key(0)] = h,
                            ![get_max_proposal_code_size_key] = Ok(m)],
             [RefPost EXCEPT ![get_proposal_code_key(0)] = Ok(n)], RefEpoch)

AuthorCases ==
    \E h \in HasPre, a \in UserAddresses, vs \in SUBSET UserAddresses,
       ks \in SmallKeySets(0) :
        Call(ks, vs,
             [RefPre EXCEPT ![get_author_key(0)] = h],
             [RefPost EXCEPT ![get_author_key(0)] = Ok(a)], RefEpoch)

EpochCases ==
    \E hs \in HasPre, he \in HasPre, m \in U64, s \in U64, e \in U64,
       c \in U64, ks \in SmallKeySets(0) :
        Call(ks, RefVerifiers,
             [RefPre EXCEPT ![get_voting_start_epoch_key(0)] = hs,
                            ![get_voting_end_epoch_key(0)] = he,
                            ![get_min_proposal_period_key] = Ok(m)],
             [RefPost EXCEPT ![get_voting_start_epoch_key(0)] = Ok(s),
                             ![get_voting_end_epoch_key(0)] = Ok(e)],
             Some(c))

GraceCases ==
    \E h \in HasPre, g \in {Absent} \cup {Ok(n) : n \in U64}, e \in U64,
       ks \in SmallKeySets(0) :
        Call(ks, RefVerifiers,
             [RefPre EXCEPT ![get_grace_epoch_key(0)] = h],
             [RefPost EXCEPT ![get_grace_epoch_key(0)] = g,
                             ![get_voting_end_epoch_key(0)] = Ok(e)],
             RefEpoch)

FundsCases ==
    \E h \in HasPre, m \in U64, b0 \in U64, b1 \in U64, f \in U64,
       ks \in SmallKeySets(0) :
        Call(ks, RefVerifiers,
             [RefPre EXCEPT ![get_funds_key(0)] = h,
                            ![get_min_proposal_fund_key] = Ok(m),
                            ![gov_balance] = Ok(b0)],
             [RefPost EXCEPT ![get_funds_key(0)] = Ok(f),
                             ![gov_balance] = Ok(b1)],
             RefEpoch)

Failures == {Absent, Garbage, StorageError}

\* the cells the rules read for proposal 0 and the extra keys
ReadKeys ==
    {get_counter_key, gov_balance, get_content_key(OtherId(0))}
        \cup {ParameterKey(name) : name \in ParameterNames}
        \cup {ProposalKey(IdSeg(0), f) : f \in ProposalFields}

\* content is read as raw bytes, which always "decode"
PostFailures ==
    {kx \in ReadKeys \X Failures :
        ~(is_content_key(kx[1]) /\ kx[2] = Garbage)}

\* one read fails: a pre cell, a post cell, or the block epoch
FailureCases ==
    \E ks \in SmallKeySets(0) :
        \/ \E k \in ReadKeys, x \in Failures :
              Call(ks, RefVerifiers, [RefPre EXCEPT ![k] = x], RefPost,
                   RefEpoch)
        \/ \E kx \in PostFailures :
              Call(ks, RefVerifiers, RefPre,
                   [RefPost EXCEPT ![kx[1]] = kx[2]], RefEpoch)
        \/ Call(ks, RefVerifiers, RefPre, RefPost, None)

Init ==
    \/ KeyCases
    \/ CounterCases
    \/ ContentCases
    \/ ProposalCodeCases
    \/ AuthorCases
    \/ EpochCases
    \/ GraceCases
    \/ FundsCases
    \/ FailureCases

(***************************************************************************)
(* validate_tx, step by step.                                              *)
(***************************************************************************)
\* lines 72-74: the shape check, then the start of keys_changed.iter().all
CheckKeySet ==
    /\ pc = "check"
    /\ IF ~is_valid_key_set(keys_changed)
       THEN /\ pc' = "done"
            /\ result' = "Ok(false)"
            /\ todo' = todo
       ELSE /\ pc' = "all"
            /\ result' = result
            /\ todo' = SortedKeys(keys_changed)
    /\ UNCHANGED inputs

\* the key the closure is called on
this_key == Head(todo)

Visiting(key_type) ==
    /\ pc = "all"
    /\ todo # <<>>
    /\ KeyTypeOf(this_key) = key_type

\* The closure's value for one key: all() goes on after true and stops at
\* the first false; a panic unwinds out of validate_tx.
Closure(outcomes) ==
    /\ \E o \in outcomes :
          IF o = "true"
          THEN /\ todo' = Tail(todo)
               /\ pc' = pc
               /\ result' = result
          ELSE /\ todo' = todo
               /\ pc' = "done"
               /\ result' = IF o = "panic" THEN "panic" ELSE "Ok(false)"
    /\ UNCHANGED inputs

VisitVote ==
    /\ Visiting("VOTE") /\ get_id(this_key).some
    /\ Closure({"false"})

VisitContent ==
    /\ Visiting("CONTENT") /\ get_id(this_key).some
    /\ Closure(ContentArm(get_id(this_key).v))

VisitProposalCode ==
    /\ Visiting("PROPOSAL_CODE") /\ get_id(this_key).some
    /\ Closure(ProposalCodeArm(get_id(this_key).v))

VisitGraceEpoch ==
    /\ Visiting("GRACE_EPOCH") /\ get_id(this_key).some
    /\ Closure(GraceEpochArm(get_id(this_key).v))

VisitStartEpoch ==
    /\ Visiting("START_EPOCH") /\ get_id(this_key).some
    /\ Closure(EpochArm(get_id(this_key).v))

VisitEndEpoch ==
    /\ Visiting("END_EPOCH") /\ get_id(this_key).some
    /\ Closure(EpochArm(get_id(this_key).v))

VisitFunds ==
    /\ Visiting("FUNDS") /\ get_id(this_key).some
    /\ Closure(FundsArm(get_id(this_key).v))

VisitAuthor ==
    /\ Visiting("AUTHOR") /\ get_id(this_key).some
    /\ Closure(AuthorArm(get_id(this_key).v))

VisitCounter ==
    /\ Visiting("COUNTER")
    /\ Closure(CounterArm)

VisitBalance ==
    /\ Visiting("BALANCE")
    /\ Closure(BalanceArm)

VisitParameter ==
    /\ Visiting("PARAMETER")
    /\ Closure({"false"})

VisitUnknown ==
    /\ Visiting("UNKNOWN")
    /\ Closure({"false"})

\* `_ => false`: a proposal-field key whose id does not parse
VisitNoId ==
    /\ pc = "all"
    /\ todo # <<>>
    /\ KeyTypeOf(this_key) \notin {"COUNTER", "BALANCE", "PARAMETER", "UNKNOWN"}
    /\ ~get_id(this_key).some
    /\ Closure({"false"})

\* line 317: all() visited every key and none was false
ReturnOk ==
    /\ pc = "all"
    /\ todo = <<>>
    /\ pc' = "done"
    /\ result' = "Ok(true)"
    /\ UNCHANGED <<todo, inputs>>

Next ==
    \/ CheckKeySet
    \/ VisitVote
    \/ VisitContent
    \/ VisitProposalCode
    \/ VisitGraceEpoch
    \/ VisitStartEpoch
    \/ VisitEndEpoch
    \/ VisitFunds
    \/ VisitAuthor
    \/ VisitCounter
    \/ VisitBalance
    \/ VisitParameter
    \/ VisitUnknown
    \/ VisitNoId
    \/ ReturnOk

Spec == Init /\ [][Next]_vars

(***************************************************************************)
(* Properties of the verdict.                                              *)
(***************************************************************************)
Accepted == result = "Ok(true)"

Returned == pc = "done"

PreCounter == read(pre, get_counter_key)

PostCounter == read(post, get_counter_key)

\* the id of the proposal an accepted call creates
NewId == PreCounter.v

FieldTypes ==
    {"CONTENT", "AUTHOR", "FUNDS", "START_EPOCH", "END_EPOCH",
     "GRACE_EPOCH", "PROPOSAL_CODE"}

\* C1: an accepted call has funds >= min_proposal_fund, a governance post
\* balance that is at least the pre balance, and a true difference
\* post - pre equal to the funds; a call whose post balance is below the
\* pre balance returns Ok(false).
C1_FundsEqualBalanceIncrease ==
    LET min_funds == read(pre, get_min_proposal_fund_key)
        pre_balance == read(pre, gov_balance)
        post_balance == read(post, gov_balance)
    IN  /\ Accepted =>
              LET funds == read(post, get_funds_key(NewId))
              IN  /\ min_funds.some /\ pre_balance.some
                  /\ post_balance.some /\ funds.some
                  /\ funds.v >= min_funds.v
                  /\ post_balance.v >= pre_balance.v
                  /\ post_balance.v - pre_balance.v = funds.v
        /\ (/\ Returned
            /\ pre_balance.some /\ post_balance.some
            /\ post_balance.v < pre_balance.v) => result = "Ok(false)"

\* C2: an accepted call has post_counter > pre_counter and
\* post_counter = pre_counter + 1 as integers, also at the maximum value.
C2_CounterIncreasedByOne ==
    Accepted =>
        /\ PreCounter.some /\ PostCounter.some
        /\ PostCounter.v > PreCounter.v
        /\ PostCounter.v = PreCounter.v + 1

\* C3: in an accepted call no field key of the new proposal had a pre-image:
\* content, author, funds, start_epoch and end_epoch always, grace_epoch and
\* proposal_code when they are among the changed keys.
C3_NoPreImage ==
    Accepted =>
        /\ \A f \in {"content", "author", "funds", "start_epoch",
                     "end_epoch"} :
              has_key_pre(ProposalKey(IdSeg(NewId), f)) = Some(FALSE)
        /\ \A f \in {"grace_epoch", "proposal_code"} :
              ProposalKey(IdSeg(NewId), f) \in keys_changed =>
                  has_key_pre(ProposalKey(IdSeg(NewId), f)) = Some(FALSE)

\* C4: in an accepted call the voting window of the new proposal has
\* start < end, (end - start) mod min_proposal_period = 0, start after the
\* current epoch and start - current >= min_proposal_period (the pre value).
C4_VotingWindow ==
    Accepted =>
        LET start_epoch == read(post, get_voting_start_epoch_key(NewId))
            end_epoch == read(post, get_voting_end_epoch_key(NewId))
            min_period == read(pre, get_min_proposal_period_key)
        IN  /\ start_epoch.some /\ end_epoch.some
            /\ min_period.some /\ block_epoch.some
            /\ start_epoch.v < end_epoch.v
            /\ min_period.v # 0
            /\ (end_epoch.v - start_epoch.v) % min_period.v = 0
            /\ start_epoch.v > block_epoch.v
            /\ start_epoch.v - block_epoch.v >= min_period.v

\* a call is accepted whose window is not the reference one: it is two
\* epochs long
C4_Witness ==
    /\ Accepted
    /\ read(post, get_voting_end_epoch_key(NewId)).v
         - read(post, get_voting_start_epoch_key(NewId)).v = 2

\* C5: in an accepted call the new proposal has a post grace_epoch with
\* start_epoch < end_epoch < grace_epoch, whether or not the grace_epoch key
\* is among the changed keys.
C5_GraceAfterEnd ==
    Accepted =>
        LET start_epoch == read(post, get_voting_start_epoch_key(NewId))
            end_epoch == read(post, get_voting_end_epoch_key(NewId))
            grace_epoch == read(post, get_grace_epoch_key(NewId))
        IN  /\ start_epoch.some /\ end_epoch.some /\ grace_epoch.some
            /\ start_epoch.v < end_epoch.v
            /\ end_epoch.v < grace_epoch.v

\* C6: in an accepted call the post value of the new proposal's author key
\* is an address of the verifiers set.
C6_AuthorIsVerifier ==
    Accepted =>
        /\ read(post, get_author_key(NewId)).some
        /\ read(post, get_author_key(NewId)).v \in verifiers

\* a call is accepted whose author is not the reference one
C6_Witness ==
    /\ Accepted
    /\ read(post, get_author_key(NewId)).v = "bob"

\* C7: a call is accepted only if the counter has a readable pre value and
\* changed_keys contains the mandatory keys of that id; a call without the
\* counter key, or without a readable pre counter, returns Ok(false).
C7_MandatoryKeys ==
    /\ Accepted =>
          /\ PreCounter.some
          /\ Mandatory(NewId) \subseteq keys_changed
    /\ (/\ Returned
        /\ get_counter_key \notin keys_changed \/ ~PreCounter.some)
          => result = "Ok(false)"

\* a call that changes the other mandatory keys of the new proposal but not
\* the counter key has returned Ok(false)
C7_Witness ==
    /\ Returned
    /\ PreCounter.some
    /\ keys_changed = Mandatory(NewId) \ {get_counter_key}
    /\ result = "Ok(false)"

FailClosedKey(k) ==
    \/ KeyTypeOf(k) \in {"VOTE", "PARAMETER", "UNKNOWN"}
    \/ KeyTypeOf(k) \in FieldTypes /\ ~get_id(k).some

\* C8: a call whose changed keys contain a VOTE, PARAMETER or UNKNOWN key,
\* or a proposal-field key without a parseable id, returns Ok(false).
C8_FailClosed ==
    (Returned /\ \E k \in keys_changed : FailClosedKey(k))
        => result = "Ok(false)"

\* C9: every call ends with Ok(true) or Ok(false); it never panics.
C9_NeverPanics ==
    Returned => result \in {"Ok(true)", "Ok(false)"}

\* C10: in an accepted call every changed per-proposal field key carries the
\* id of the new proposal, the pre value of the counter.
C10_OnlyNewProposal ==
    Accepted =>
        \A k \in keys_changed :
            KeyTypeOf(k) \in FieldTypes => get_id(k) = Some(NewId)

====
